---- MODULE Spec2Model ----
(***************************************************************************)
(* Reconciliation passes of the three module variants of the repository:   *)
(*   "plugin"  : src/plugins/modules/zfs_manager.py                        *)
(*   "library" : src/library/zfs_manager.py                                *)
(*   "kuit"    : src/library/kuit_zfs_zpool.py                             *)
(* One pass is one invocation of run_module.  Every step of a pass is one  *)
(* external command (subprocess.run) followed by all the Python code up to *)
(* the next external command or to exit_json / fail_json.                  *)
(* The storage subsystem itself (zpool / zfs) is outside the repository;   *)
(* it is modelled by the Zfs* operators after the command surface of the   *)
(* specification: a command either fully succeeds or fully fails, a        *)
(* mutating command may always fail, and `zpool status` lists an attached  *)
(* device under the name it was attached with.                             *)
(* A subsystem that cannot be reached is one whose commands all end with   *)
(* a non-zero status (permission denied) or cannot be started because they *)
(* are not installed; how it is reached does not change during a run.      *)
(*                                                                         *)
(* AnsibleModule is outside the repository too.  What the model takes from *)
(* it: exit_json and fail_json end the process; an invocation in check     *)
(* mode of a module constructed with supports_check_mode=False ends as     *)
(* skipped before run_module reads a parameter.                            *)
(*                                                                         *)
(* src/library/zfs_manager.py does not parse as committed (line 150 ends   *)
(* in default='present'')); the model takes its argument_spec as           *)
(* state=dict(type='str', default='present') and the rest as written.      *)
(***************************************************************************)
EXTENDS Integers, Sequences, FiniteSets, TLC

VARIABLES
    sys,      \* actual state of the storage subsystem
    req,      \* module.params of the running invocation (+ variant, check_mode)
    pc,       \* position of the invocation in run_module
    loc,      \* local variables of run_module
    result,   \* what exit_json / fail_json handed to the caller ("none" before)
    cmds,     \* external commands issued so far in this pass, with exit status
    pass,     \* 1: first invocation, 2: the following invocation
    first     \* record of the first invocation, kept for the second

vars == <<sys, req, pc, loc, result, cmds, pass, first>>

-----------------------------------------------------------------------------
(* Bounds of the model *)

\* longest list of member disks in a request
MaxDisks == 5
\* longest list of hot spares in a request
MaxSpares == 2

-----------------------------------------------------------------------------
(* Names *)

PoolName == "tank"
VolName == "cachevol"
DiskNames == <<"sda", "sdb", "sdc", "sdd", "sde", "sdh", "sdi", "sdj">>
SpareNames == <<"sdf", "sdg", "sdk", "sdl">>

Range(s) == {s[i] : i \in 1..Len(s)}

\* f"/dev/zvol/{zvol_name}"
DevicePath(zvol_name) == "/dev/zvol/" \o zvol_name

\* the disks lists requests are drawn from: every prefix of DiskNames up to
\* MaxDisks, and one list in another order than the alphabetical one
DiskLists ==
    {SubSeq(DiskNames, 1, n) : n \in 0..MaxDisks} \cup {<<"sdb", "sda">>}

SpareLists == {SubSeq(SpareNames, 1, n) : n \in 0..MaxSpares}

RaidTypes == {"stripe", "mirror", "raidz", "raidz1", "raidz2", "raidz3", "raidz9"}

\* module.params['compression'] and module.params['canmount'].  The plugin
\* declares them type='bool', default=False: the Python bools True and False
\* (written "True", "False" here).  The library variant and kuit_zfs_zpool
\* declare them type='str', default='off': a boolean of the caller arrives as
\* the str 'True' or 'False', and 'off' when the caller gave none.
Flags(variant) ==
    IF variant = "plugin" THEN {"True", "False"} ELSE {"True", "False", "off"}

-----------------------------------------------------------------------------
(* The storage subsystem *)

NoPool ==
    [st |-> "absent", disks |-> <<>>, spares |-> {}, caches |-> {},
     compression |-> "off", canmount |-> "off"]

NoVol == [exists |-> FALSE, compression |-> "off", canmount |-> "off"]

\* devices that may already be attached to a pool the pass finds
AttachDevs == {SpareNames[1], DevicePath(VolName)}

\* an online pool with the options the subsystem gives a new pool: its member
\* disks, and each other device a member, a spare, a cache device or not attached
OnlinePool(role) ==
    [st |-> "online",
     disks |-> <<"sda", "sdb">> \o
               (IF role[SpareNames[1]] = "member" THEN <<SpareNames[1]>> ELSE <<>>),
     spares |-> {d \in AttachDevs : role[d] = "spare"},
     caches |-> {d \in AttachDevs : role[d] = "cache"},
     compression |-> "off", canmount |-> "on"]

Roles ==
    {r \in [AttachDevs -> {"none", "member", "spare", "cache"}] :
        r[DevicePath(VolName)] # "member"}

ExportedPool == [NoPool EXCEPT !.st = "exported", !.disks = <<"sda", "sdb">>]

\* the pools a pass may find: with attached devices for the variant that reads
\* them (the plugin: hot spares and cache devices), without for the others
PoolStates(variant) ==
    {NoPool, ExportedPool} \cup
        {OnlinePool(r) : r \in IF variant = "plugin" THEN Roles
                               ELSE {[d \in AttachDevs |-> "none"]}}

VolStates == {NoVol, [NoVol EXCEPT !.exists = TRUE]}

PoolOnline(s) == s.pool.st = "online"

Attached(p) == Range(p.disks) \cup p.spares \cup p.caches

\* the words of the output of `zpool status <pool>`: the pool, its devices, and
\* the section headers "spares" and "cache" of the sections that are not empty
StatusOutput(p) ==
    {PoolName} \cup Attached(p)
        \cup (IF p.spares # {} THEN {"spares"} ELSE {})
        \cup (IF p.caches # {} THEN {"cache"} ELSE {})

\* the value a `key=value` option argument sets
OptionKey(option) ==
    IF option \in {"compression=on", "compression=off"} THEN "compression" ELSE "canmount"
OptionValue(option) ==
    IF option \in {"compression=on", "canmount=on"} THEN "on" ELSE "off"

SetOptions(d, opts) ==
    LET val(key, old) ==
            LET hits == {i \in 1..Len(opts) : OptionKey(opts[i]) = key}
            IN  IF hits = {} THEN old
                ELSE OptionValue(opts[CHOOSE i \in hits : \A j \in hits : j <= i])
    IN  [d EXCEPT !.compression = val("compression", d.compression),
                  !.canmount = val("canmount", d.canmount)]

\* ZfsCan(s, argv): the command can succeed in state s
\* ZfsDo(s, argv): the state after the command succeeded
ZfsCan(s, argv) ==
    CASE argv[2] = "list" /\ argv[1] = "zpool" -> PoolOnline(s)
      [] argv[2] = "list" /\ argv[1] = "zfs" -> s.vol.exists
      [] argv[2] = "status" -> PoolOnline(s) /\ argv[3] = PoolName
      [] argv[2] = "create" /\ argv[1] = "zpool" ->
            /\ s.pool.st = "absent"
            /\ Len(argv) >= 4
            /\ argv[4] \in RaidTypes => argv[4] # "raidz9" /\ Len(argv) >= 5
      [] argv[2] = "create" /\ argv[1] = "zfs" -> ~s.vol.exists
      [] argv[2] = "destroy" /\ argv[1] = "zpool" -> PoolOnline(s)
      [] argv[2] = "destroy" /\ argv[1] = "zfs" -> s.vol.exists
      [] argv[2] = "set" ->
            IF argv[Len(argv)] = PoolName THEN PoolOnline(s) ELSE s.vol.exists
      [] argv[2] = "add" ->
            /\ PoolOnline(s) /\ argv[3] = PoolName
            /\ argv[5] \notin Attached(s.pool)
      [] argv[2] = "import" /\ Len(argv) > 2 -> s.pool.st = "exported"
      [] argv[2] = "import" /\ Len(argv) = 2 -> TRUE
      [] argv[2] = "export" -> PoolOnline(s)
      [] OTHER -> FALSE

ZfsDo(s, argv) ==
    CASE argv[2] = "create" /\ argv[1] = "zpool" ->
            [s EXCEPT !.pool =
                [NoPool EXCEPT !.st = "online", !.canmount = "on",
                    !.disks = IF argv[4] \in RaidTypes
                              THEN SubSeq(argv, 5, Len(argv))
                              ELSE SubSeq(argv, 4, Len(argv))]]
      [] argv[2] = "create" /\ argv[1] = "zfs" ->
            [s EXCEPT !.vol = [NoVol EXCEPT !.exists = TRUE]]
      [] argv[2] = "destroy" /\ argv[1] = "zpool" -> [s EXCEPT !.pool = NoPool]
      [] argv[2] = "destroy" /\ argv[1] = "zfs" -> [s EXCEPT !.vol = NoVol]
      [] argv[2] = "set" ->
            LET opts == SubSeq(argv, 3, Len(argv) - 1)
            IN  IF argv[Len(argv)] = PoolName
                THEN [s EXCEPT !.pool = SetOptions(s.pool, opts)]
                ELSE [s EXCEPT !.vol = SetOptions(s.vol, opts)]
      [] argv[2] = "add" /\ argv[4] = "spare" ->
            [s EXCEPT !.pool.spares = @ \cup {argv[5]}]
      [] argv[2] = "add" /\ argv[4] = "cache" ->
            [s EXCEPT !.pool.caches = @ \cup {argv[5]}]
      [] argv[2] = "import" /\ Len(argv) > 2 -> [s EXCEPT !.pool.st = "online"]
      [] argv[2] = "export" -> [s EXCEPT !.pool.st = "exported"]
      [] OTHER -> s

Mutating(argv) == argv[2] \in {"create", "set", "add", "destroy", "export"}
                    \/ (argv[2] = "import" /\ Len(argv) > 2)

\* how the subsystem can be reached: "ok", "denied" (every command ends with
\* a non-zero status, permission denied) or "missing" (the zpool and zfs
\* commands are not installed: starting one raises FileNotFoundError)
Reaches == {"ok", "denied", "missing"}

\* the exit statuses a command can end with in state s: an inspection answers
\* for the state, a mutating command may always fail; no command succeeds on
\* a subsystem that cannot be reached
ExitStatuses(s, argv) ==
    IF s.reach # "ok" THEN {FALSE}
    ELSE IF ~Mutating(argv) THEN {ZfsCan(s, argv)}
    ELSE IF ZfsCan(s, argv) THEN {TRUE, FALSE} ELSE {FALSE}

\* the words of the output of `zpool import`: the pools that can be imported; a
\* pool that was just exported may not be listed yet
ImportListings(s) == IF s.pool.st = "exported" THEN {{}, {PoolName}} ELSE {{}}

-----------------------------------------------------------------------------
(* Requests *)

\* fields a variant does not declare keep these values
DefaultRequest ==
    [variant |-> "plugin", check_mode |-> FALSE, type |-> "zpool",
     state |-> "present", name |-> PoolName, raidz |-> "stripe", disks |-> <<>>,
     hot_spare |-> <<>>, compression |-> "False", canmount |-> "False",
     size |-> "", zpool |-> "", directory |-> ""]

\* a request that creates or keeps a pool: every scheme, disks list and option
PoolPresentRequests(variant, spares) ==
    { [DefaultRequest EXCEPT !.variant = variant, !.check_mode = cm,
          !.raidz = r, !.disks = d, !.hot_spare = h,
          !.compression = c, !.canmount = m] :
      cm \in BOOLEAN, r \in RaidTypes, d \in DiskLists, h \in spares,
      c \in Flags(variant), m \in Flags(variant) }

\* a request of another intent for a pool: the state value alone matters
PoolStateRequests(variant, states) ==
    { [DefaultRequest EXCEPT !.variant = variant, !.check_mode = cm, !.state = st,
          !.directory = dir] :
      cm \in BOOLEAN, st \in states,
      dir \in IF variant = "kuit" THEN {"", "/dev/disk/by-id"} ELSE {""} }

VolumeRequests(variant) ==
    { [DefaultRequest EXCEPT !.variant = variant, !.check_mode = cm,
          !.type = "volume", !.name = VolName, !.state = st, !.size = sz,
          !.compression = c, !.canmount = m] :
      cm \in BOOLEAN, st \in {"present", "absent"}, sz \in {"", "10G"},
      c \in Flags(variant), m \in Flags(variant) }

CacheRequests ==
    { [DefaultRequest EXCEPT !.variant = "plugin", !.check_mode = cm,
          !.type = "cache", !.name = VolName, !.state = st, !.size = sz,
          !.zpool = zp] :
      cm \in BOOLEAN, st \in {"present", "absent"}, sz \in {"", "10G"},
      zp \in {"", PoolName} }

\* argument_spec of each run_module
PluginRequests ==
    PoolPresentRequests("plugin", SpareLists)
        \cup PoolStateRequests("plugin", {"absent"})
        \cup VolumeRequests("plugin") \cup CacheRequests

\* state has no choices in the library variant and in kuit_zfs_zpool
LibraryRequests ==
    PoolPresentRequests("library", {<<>>})
        \cup PoolStateRequests("library", {"absent", "export"})
        \cup VolumeRequests("library")

KuitRequests ==
    PoolPresentRequests("kuit", {<<>>})
        \cup PoolStateRequests("kuit", {"absent", "import", "export", "check", "list"})

Requests == PluginRequests \cup LibraryRequests \cup KuitRequests

\* the subsystem states a request is started in: the resources the request's
\* kind reads or writes in every state, the others absent
StartStates(r) ==
    { [pool |-> p, vol |-> v, reach |-> rch] :
        p \in IF r.type \in {"zpool", "cache"} THEN PoolStates(r.variant) ELSE {NoPool},
        v \in IF r.type \in {"volume", "cache"} THEN VolStates ELSE {NoVol},
        rch \in Reaches }

-----------------------------------------------------------------------------
(* Parameters as run_module reads them *)

\* every variant declaring supports_check_mode=True
supports_check_mode_Declared(variant) == variant \in {"plugin", "library", "kuit"}

\* AnsibleModule(argument_spec, supports_check_mode=...)
supports_check_mode(variant) == variant = "library"

\* truth value of a Python value: of a bool itself, of a str that it is not ''
Truthy(variant, v) == IF variant = "plugin" THEN v = "True" ELSE v # ""

\* zfs_manager: 'compression=on' if module.params['compression'] else 'compression=off'
\* kuit_zfs_zpool: if module.params["compression"] == 'True': compress = "on"
OptionOn(r, flag) ==
    IF r.variant = "kuit" THEN flag = "True" ELSE Truthy(r.variant, flag)

options(r) ==
    << IF OptionOn(r, r.compression) THEN "compression=on" ELSE "compression=off",
       IF OptionOn(r, r.canmount) THEN "canmount=on" ELSE "canmount=off" >>

-----------------------------------------------------------------------------
(* Commands the helper functions build *)

create_zpool(name, raid_type, disks) ==
    <<"zpool", "create", name>>
        \o (IF raid_type # "stripe" THEN <<raid_type>> ELSE <<>>) \o disks

\* create_volume with the size and the name exchanged
create_volume_NameFirst(name, size) == <<"zfs", "create", "-V", name, size>>

create_volume(name, size) == <<"zfs", "create", "-V", size, name>>

destroy_zpool(name) == <<"zpool", "destroy", name>>

destroy_volume(name) == <<"zfs", "destroy", name>>

\* one command of the loop of set_zpool_options
set_zpool_options(name, option) == <<"zfs", "set", option, name>>

\* set_zpool_option(zpool, *options) of kuit_zfs_zpool: one command for all
set_zpool_option(zpool, opts) == <<"zfs", "set">> \o opts \o <<zpool>>

check_zpool_exists(name) == <<"zpool", "list", name>>

check_volume_exists(name) == <<"zfs", "list", name>>

zpool_status(zpool) == <<"zpool", "status", zpool>>

add_cache_to_zpool(zpool, device) == <<"zpool", "add", zpool, "cache", device>>

add_hotspare(zpool, device) == <<"zpool", "add", zpool, "spare", device>>

export_zpool(zpool) == <<"zpool", "export", zpool>>

import_zpool(zpool, dir) ==
    IF dir # "" THEN <<"zpool", "import", "-d", dir, zpool>>
    ELSE <<"zpool", "import", zpool>>

\* return f"cache" in result.stdout and device in result.stdout
cache_device_exists(ok, stdout, device) ==
    ok /\ "cache" \in stdout /\ device \in stdout

\* return 'spares' in result.stdout and device in result.stdout
hotspare_exists(ok, stdout, device) ==
    ok /\ "spares" \in stdout /\ device \in stdout

raid_min_disks ==
    [stripe |-> 1, mirror |-> 2, raidz |-> 3, raidz1 |-> 3, raidz2 |-> 4, raidz3 |-> 5]

\* "ok", or the fail_json that ends the pass
validate_raid_disks(raid_type, disks) ==
    LET rt == IF raid_type = "raidz1" THEN "raidz" ELSE raid_type
    IN  IF rt \notin DOMAIN raid_min_disks THEN "invalid_raid_type"
        ELSE IF Len(disks) < raid_min_disks[rt] THEN "too_few_disks"
        ELSE "ok"

-----------------------------------------------------------------------------
(* Results and control *)

NoResult == [status |-> "none", changed |-> FALSE, msg |-> ""]

\* module.exit_json(changed=...)
exit_json(changed) == [status |-> "ok", changed |-> changed, msg |-> ""]

\* module.fail_json(msg=...)
fail_json(msg) == [status |-> "failed", changed |-> FALSE, msg |-> msg]

\* AnsibleModule ends an invocation in check mode of a module that does not
\* support it before run_module reads a parameter
skipped == [status |-> "skipped", changed |-> FALSE, msg |-> "no check mode"]

\* run_module returned without exit_json or fail_json
returned == [status |-> "returned", changed |-> FALSE, msg |-> ""]

\* the process ended with a traceback of an exception nothing caught
crashed == [status |-> "crashed", changed |-> FALSE, msg |-> "FileNotFoundError"]

InitLoc ==
    [pool_exists |-> FALSE, volume_exists |-> FALSE, changed |-> FALSE,
     k |-> 1, i |-> 1, after |-> "", rc1 |-> FALSE, rc |-> FALSE, elapsed |-> 0]

\* where a step leaves the invocation
Goto(label, l) == [pc |-> label, loc |-> l, result |-> NoResult]
Exit(l, res) == [pc |-> "done", loc |-> l, result |-> res]

Continue(c) ==
    /\ pc' = c.pc
    /\ loc' = c.loc
    /\ result' = c.result

\* subprocess.run(command) where only CalledProcessError is caught: a command
\* that is not installed raises FileNotFoundError through run_module. The first
\* command of every pass is an existence check, so that no later command is
\* started where the commands are missing.
Raised(next) == IF sys.reach = "missing" THEN Exit(loc, crashed) ELSE next

\* subprocess.run(command): the command is issued and ends with status ok
Run(argv, ok) ==
    /\ cmds' = Append(cmds, [argv |-> argv, ok |-> ok])
    /\ sys' = IF ok /\ Mutating(argv) THEN ZfsDo(sys, argv) ELSE sys

-----------------------------------------------------------------------------
(* run_module of zfs_manager, plugin and library variant *)

\* AfterOptions reporting changed=True for options set on an existing resource
AfterOptions_OptionsChanged(l) ==
    CASE l.after = "spares" ->
            IF req.hot_spare = <<>> THEN Exit(l, exit_json(l.changed))
            ELSE Goto("hotspare_exists", [l EXCEPT !.i = 1])
      [] l.after = "exit_false" -> Exit(l, exit_json(TRUE))
      [] l.after = "exit_result" -> Exit(l, exit_json(TRUE))

\* what follows set_zpool_options
AfterOptions(l) ==
    CASE l.after = "spares" ->
            IF req.hot_spare = <<>> THEN Exit(l, exit_json(l.changed))
            ELSE Goto("hotspare_exists", [l EXCEPT !.i = 1])
      [] l.after = "exit_false" -> Exit(l, exit_json(FALSE))
      [] l.after = "exit_result" -> Exit(l, exit_json(TRUE))

\* PluginPool without the check of hot spares without disks
PluginPool_NoSpareCheck(l) ==
    IF req.state = "present"
    THEN IF ~l.pool_exists
         THEN IF validate_raid_disks(req.raidz, req.disks) # "ok"
              THEN Exit(l, fail_json(validate_raid_disks(req.raidz, req.disks)))
              ELSE Goto("create_zpool", [l EXCEPT !.after = "spares"])
         ELSE Goto("set_zpool_options", [l EXCEPT !.k = 1, !.after = "spares"])
    ELSE IF l.pool_exists
         THEN IF req.check_mode THEN Exit(l, exit_json(TRUE))
              ELSE Goto("destroy_zpool", l)
         ELSE Exit(l, exit_json(FALSE))

\* plugin, type zpool, after check_zpool_exists
PluginPool(l) ==
    IF req.state = "present"
    THEN IF ~l.pool_exists /\ req.hot_spare # <<>> /\ req.disks = <<>>
         THEN Exit(l, fail_json("hot spares but no disks"))
         ELSE IF ~l.pool_exists
         THEN IF validate_raid_disks(req.raidz, req.disks) # "ok"
              THEN Exit(l, fail_json(validate_raid_disks(req.raidz, req.disks)))
              ELSE Goto("create_zpool", [l EXCEPT !.after = "spares"])
         ELSE Goto("set_zpool_options", [l EXCEPT !.k = 1, !.after = "spares"])
    ELSE IF l.pool_exists
         THEN IF req.check_mode THEN Exit(l, exit_json(TRUE))
              ELSE Goto("destroy_zpool", l)
         ELSE Exit(l, exit_json(FALSE))

\* library, type zpool, after check_zpool_exists
LibraryPool(l) ==
    CASE req.state = "present" ->
            IF l.pool_exists
            THEN IF req.check_mode THEN Exit(l, exit_json(FALSE))
                 ELSE Goto("set_zpool_options", [l EXCEPT !.k = 1, !.after = "exit_false"])
            ELSE IF req.check_mode THEN Exit(l, exit_json(TRUE))
                 ELSE Goto("create_zpool", [l EXCEPT !.after = "exit_result"])
      [] req.state = "absent" ->
            IF l.pool_exists
            THEN IF req.check_mode THEN Exit(l, exit_json(TRUE))
                 ELSE Goto("destroy_zpool", l)
            ELSE Exit(l, exit_json(FALSE))
      [] OTHER -> Exit(l, returned)

\* type volume, after check_volume_exists: the same code in both variants
Volume(l) ==
    CASE req.state = "present" ->
            IF l.volume_exists
            THEN IF req.check_mode THEN Exit(l, exit_json(FALSE))
                 ELSE Goto("set_zpool_options", [l EXCEPT !.k = 1, !.after = "exit_false"])
            ELSE IF req.check_mode THEN Exit(l, exit_json(TRUE))
                 ELSE Goto("create_volume", [l EXCEPT !.after = "exit_result"])
      [] req.state = "absent" ->
            IF l.volume_exists
            THEN IF req.check_mode THEN Exit(l, exit_json(TRUE))
                 ELSE Goto("destroy_volume", l)
            ELSE Exit(l, exit_json(FALSE))
      [] OTHER -> Exit(l, returned)

\* plugin, type cache, after check_volume_exists
Cache(l) ==
    IF ~l.volume_exists
    THEN IF req.check_mode THEN Exit(l, exit_json(TRUE))
         ELSE Goto("create_volume", [l EXCEPT !.after = "cache"])
    ELSE Goto("cache_device_exists", l)

\* run_module up to its first external command
PluginMain ==
    CASE req.type = "zpool" -> Goto("check_zpool_exists", InitLoc)
      [] req.type = "volume" ->
            IF req.size = "" THEN Exit(InitLoc, fail_json("size is required"))
            ELSE Goto("check_volume_exists", InitLoc)
      [] req.type = "cache" ->
            IF req.size = "" \/ req.zpool = ""
            THEN Exit(InitLoc, fail_json("size and zpool are required"))
            ELSE Goto("check_volume_exists", InitLoc)

LibraryMain ==
    IF req.type = "volume" /\ req.size = ""
    THEN Exit(InitLoc, fail_json("size is required"))
    ELSE IF req.type = "zpool" THEN Goto("check_zpool_exists", InitLoc)
    ELSE Goto("check_volume_exists", InitLoc)

\* kuit_zfs_zpool: every state but an unknown one starts with check_for_zpool
KuitMain ==
    IF req.state \in {"present", "absent", "import", "export", "check"}
    THEN Goto("check_for_zpool", InitLoc)
    ELSE Exit(InitLoc, exit_json(FALSE))

-----------------------------------------------------------------------------
(* Steps of zfs_manager *)

\* run_command: a failing command ends the pass with fail_json
run_command(ok, l, next) == IF ok THEN next ELSE Exit(l, fail_json("command failed"))

\* AnsibleModule(...) and the code of run_module before its first command
RunModule ==
    /\ pc = "start"
    /\ IF req.check_mode /\ ~supports_check_mode(req.variant)
       THEN Continue(Exit(InitLoc, skipped))
       ELSE Continue(CASE req.variant = "plugin" -> PluginMain
                       [] req.variant = "library" -> LibraryMain
                       [] req.variant = "kuit" -> KuitMain)
    /\ UNCHANGED <<sys, req, cmds, pass, first>>

CheckZpoolExists ==
    /\ pc = "check_zpool_exists"
    /\ \E ok \in ExitStatuses(sys, check_zpool_exists(req.name)) :
          /\ Run(check_zpool_exists(req.name), ok)
          /\ Continue(Raised(IF req.variant = "plugin"
                             THEN PluginPool([loc EXCEPT !.pool_exists = ok])
                             ELSE LibraryPool([loc EXCEPT !.pool_exists = ok])))
    /\ UNCHANGED <<req, pass, first>>

CheckVolumeExists ==
    /\ pc = "check_volume_exists"
    /\ \E ok \in ExitStatuses(sys, check_volume_exists(req.name)) :
          /\ Run(check_volume_exists(req.name), ok)
          /\ Continue(Raised(IF req.type = "cache"
                             THEN Cache([loc EXCEPT !.volume_exists = ok])
                             ELSE Volume([loc EXCEPT !.volume_exists = ok])))
    /\ UNCHANGED <<req, pass, first>>

CreateZpool ==
    /\ pc = "create_zpool"
    /\ LET argv == create_zpool(req.name, req.raidz, req.disks)
           l == [loc EXCEPT !.k = 1,
                            !.changed = IF req.variant = "plugin" THEN TRUE ELSE @]
       IN  \E ok \in ExitStatuses(sys, argv) :
              /\ Run(argv, ok)
              /\ Continue(run_command(ok, loc, Goto("set_zpool_options", l)))
    /\ UNCHANGED <<req, pass, first>>

CreateVolume ==
    /\ pc = "create_volume"
    /\ LET argv == create_volume(req.name, req.size)
       IN  \E ok \in ExitStatuses(sys, argv) :
              /\ Run(argv, ok)
              /\ Continue(run_command(ok, loc,
                    IF req.type = "cache"
                    THEN Goto("cache_device_exists", [loc EXCEPT !.changed = TRUE])
                    ELSE Goto("set_zpool_options", [loc EXCEPT !.k = 1])))
    /\ UNCHANGED <<req, pass, first>>

\* one turn of the loop of set_zpool_options, and what follows the last one
SetZpoolOptions ==
    /\ pc = "set_zpool_options"
    /\ LET argv == set_zpool_options(req.name, options(req)[loc.k])
       IN  \E ok \in ExitStatuses(sys, argv) :
              /\ Run(argv, ok)
              /\ Continue(run_command(ok, loc,
                    IF loc.k < Len(options(req))
                    THEN Goto("set_zpool_options", [loc EXCEPT !.k = @ + 1])
                    ELSE AfterOptions(loc)))
    /\ UNCHANGED <<req, pass, first>>

\* NextSpare setting the options after the loop over hot_spare
NextSpare_OptionsLast(l) ==
    IF l.i < Len(req.hot_spare)
    THEN Goto("hotspare_exists", [l EXCEPT !.i = @ + 1])
    ELSE Goto("set_zpool_options", [l EXCEPT !.k = 1, !.after = "exit_result"])

\* what follows one turn of the loop over hot_spare
NextSpare(l) ==
    IF l.i < Len(req.hot_spare)
    THEN Goto("hotspare_exists", [l EXCEPT !.i = @ + 1])
    ELSE Exit(l, exit_json(l.changed))

HotspareExists ==
    /\ pc = "hotspare_exists"
    /\ \E ok \in ExitStatuses(sys, zpool_status(req.name)) :
          /\ Run(zpool_status(req.name), ok)
          /\ Continue(IF hotspare_exists(ok, StatusOutput(sys.pool), req.hot_spare[loc.i])
                      THEN NextSpare(loc)
                      ELSE Goto("add_hotspare", loc))
    /\ UNCHANGED <<req, pass, first>>

\* AddHotspare without changed = True after the command
AddHotspare_Unreported ==
    /\ pc = "add_hotspare"
    /\ LET argv == add_hotspare(req.name, req.hot_spare[loc.i])
       IN  \E ok \in ExitStatuses(sys, argv) :
              /\ Run(argv, ok)
              /\ Continue(run_command(ok, loc, NextSpare(loc)))
    /\ UNCHANGED <<req, pass, first>>

\* add_hotspare(name, spare, module); changed = True
AddHotspare ==
    /\ pc = "add_hotspare"
    /\ LET argv == add_hotspare(req.name, req.hot_spare[loc.i])
       IN  \E ok \in ExitStatuses(sys, argv) :
              /\ Run(argv, ok)
              /\ Continue(run_command(ok, loc, NextSpare([loc EXCEPT !.changed = TRUE])))
    /\ UNCHANGED <<req, pass, first>>

DestroyZpool ==
    /\ pc = "destroy_zpool"
    /\ \E ok \in ExitStatuses(sys, destroy_zpool(req.name)) :
          /\ Run(destroy_zpool(req.name), ok)
          /\ Continue(run_command(ok, loc, Exit(loc, exit_json(TRUE))))
    /\ UNCHANGED <<req, pass, first>>

DestroyVolume ==
    /\ pc = "destroy_volume"
    /\ \E ok \in ExitStatuses(sys, destroy_volume(req.name)) :
          /\ Run(destroy_volume(req.name), ok)
          /\ Continue(run_command(ok, loc, Exit(loc, exit_json(TRUE))))
    /\ UNCHANGED <<req, pass, first>>

CacheDeviceExists ==
    /\ pc = "cache_device_exists"
    /\ \E ok \in ExitStatuses(sys, zpool_status(req.zpool)) :
          /\ Run(zpool_status(req.zpool), ok)
          /\ Continue(
                IF ~cache_device_exists(ok, StatusOutput(sys.pool), DevicePath(req.name))
                THEN IF req.check_mode THEN Exit(loc, exit_json(TRUE))
                     ELSE Goto("add_cache_to_zpool", loc)
                ELSE Exit(loc, exit_json(loc.changed)))
    /\ UNCHANGED <<req, pass, first>>

\* AddCacheToZpool without changed = True after the command
AddCacheToZpool_Unreported ==
    /\ pc = "add_cache_to_zpool"
    /\ LET argv == add_cache_to_zpool(req.zpool, DevicePath(req.name))
       IN  \E ok \in ExitStatuses(sys, argv) :
              /\ Run(argv, ok)
              /\ Continue(run_command(ok, loc, Exit(loc, exit_json(loc.changed))))
    /\ UNCHANGED <<req, pass, first>>

\* add_cache_to_zpool(zpool, device, module); changed = True
AddCacheToZpool ==
    /\ pc = "add_cache_to_zpool"
    /\ LET argv == add_cache_to_zpool(req.zpool, DevicePath(req.name))
       IN  \E ok \in ExitStatuses(sys, argv) :
              /\ Run(argv, ok)
              /\ Continue(run_command(ok, loc, Exit(loc, exit_json(TRUE))))
    /\ UNCHANGED <<req, pass, first>>

-----------------------------------------------------------------------------
(* kuit_zfs_zpool *)

timeout == 150
check_interval == 10

\* create_zpool(*args) of kuit_zfs_zpool, called without the type for a stripe
kuit_create_zpool(name, type, disks) ==
    IF type = "stripe" THEN <<"zpool", "create", name>> \o disks
    ELSE <<"zpool", "create", name, type>> \o disks

\* change_state(bool, result, module) and the exit_json that ends run_module
change_state(b, l) ==
    IF b THEN Exit(l, exit_json(TRUE)) ELSE Exit(l, fail_json("Unable to create zpool"))

\* if result.returncode != 0: return False; return pool_name in output
zpool_ready_for_import(ok, stdout, pool_name) == ok /\ pool_name \in stdout

\* run_module after check_for_zpool
KuitPool(l) ==
    CASE req.state = "present" ->
            IF ~l.pool_exists
            THEN IF req.check_mode THEN Exit(l, exit_json(TRUE))
                 ELSE Goto("kuit_create_zpool", l)
            ELSE IF req.check_mode THEN Exit(l, exit_json(FALSE))
                 ELSE Goto("set_zpool_option", [l EXCEPT !.rc1 = TRUE])
      [] req.state = "absent" ->
            IF l.pool_exists
            THEN IF req.check_mode THEN Exit(l, exit_json(TRUE))
                 ELSE Goto("kuit_destroy_zpool", l)
            ELSE IF req.check_mode THEN Exit(l, exit_json(FALSE))
                 ELSE Exit(l, fail_json("No such zpool"))
      [] req.state = "import" ->
            IF ~l.pool_exists THEN Goto("import_zpool", l)
            ELSE Exit(l, fail_json("No such zpool"))
      [] req.state = "export" ->
            IF l.pool_exists THEN Goto("export_zpool", l)
            ELSE IF req.check_mode THEN Exit(l, exit_json(FALSE))
                 ELSE Exit(l, fail_json("No such zpool"))
      [] req.state = "check" -> Exit(l, exit_json(FALSE))

CheckForZpool ==
    /\ pc = "check_for_zpool"
    /\ \E ok \in ExitStatuses(sys, check_zpool_exists(req.name)) :
          /\ Run(check_zpool_exists(req.name), ok)
          /\ Continue(Raised(KuitPool([loc EXCEPT !.pool_exists = ok])))
    /\ UNCHANGED <<req, pass, first>>

\* rc1 = create_zpool(...): the set_zpool_option call follows whatever rc1 is
KuitCreateZpool ==
    /\ pc = "kuit_create_zpool"
    /\ LET argv == kuit_create_zpool(req.name, req.raidz, req.disks)
       IN  \E ok \in ExitStatuses(sys, argv) :
              /\ Run(argv, ok)
              /\ Continue(Goto("set_zpool_option", [loc EXCEPT !.rc1 = ok]))
    /\ UNCHANGED <<req, pass, first>>

\* KuitSetZpoolOption reporting changed=False for an existing pool
KuitSetZpoolOption_ExistingUnchanged ==
    /\ pc = "set_zpool_option"
    /\ LET argv == set_zpool_option(req.name, options(req))
       IN  \E ok \in ExitStatuses(sys, argv) :
              /\ Run(argv, ok)
              /\ Continue(IF loc.pool_exists /\ ok
                          THEN Exit([loc EXCEPT !.rc = ok], exit_json(FALSE))
                          ELSE change_state(loc.rc1 /\ ok, [loc EXCEPT !.rc = ok]))
    /\ UNCHANGED <<req, pass, first>>

\* rc2 = set_zpool_option(...); change_state(rc1 and rc2, ...), or
\* rc = set_zpool_option(...); change_state(rc, ...) for an existing pool
KuitSetZpoolOption ==
    /\ pc = "set_zpool_option"
    /\ LET argv == set_zpool_option(req.name, options(req))
       IN  \E ok \in ExitStatuses(sys, argv) :
              /\ Run(argv, ok)
              /\ Continue(change_state(loc.rc1 /\ ok, [loc EXCEPT !.rc = ok]))
    /\ UNCHANGED <<req, pass, first>>

KuitDestroyZpool ==
    /\ pc = "kuit_destroy_zpool"
    /\ \E ok \in ExitStatuses(sys, destroy_zpool(req.name)) :
          /\ Run(destroy_zpool(req.name), ok)
          /\ Continue(change_state(ok, [loc EXCEPT !.rc = ok]))
    /\ UNCHANGED <<req, pass, first>>

ImportZpool ==
    /\ pc = "import_zpool"
    /\ LET argv == import_zpool(req.name, req.directory)
       IN  \E ok \in ExitStatuses(sys, argv) :
              /\ Run(argv, ok)
              /\ Continue(change_state(ok, [loc EXCEPT !.rc = ok]))
    /\ UNCHANGED <<req, pass, first>>

\* ExportZpool entering the wait loop with rc = True whatever the command did
ExportZpool_RcIgnored ==
    /\ pc = "export_zpool"
    /\ \E ok \in ExitStatuses(sys, export_zpool(req.name)) :
          /\ Run(export_zpool(req.name), ok)
          /\ Continue(Goto("zpool_ready_for_import", [loc EXCEPT !.rc = TRUE, !.elapsed = 0]))
    /\ UNCHANGED <<req, pass, first>>

\* rc = export_zpool(...); start_time = time.time()
ExportZpool ==
    /\ pc = "export_zpool"
    /\ \E ok \in ExitStatuses(sys, export_zpool(req.name)) :
          /\ Run(export_zpool(req.name), ok)
          /\ Continue(Goto("zpool_ready_for_import", [loc EXCEPT !.rc = ok, !.elapsed = 0]))
    /\ UNCHANGED <<req, pass, first>>

\* one turn of: while time.time() - start_time < timeout
WaitReadyForImport ==
    /\ pc = "zpool_ready_for_import"
    /\ IF loc.elapsed < timeout
       THEN \E stdout \in ImportListings(sys) :
               /\ Run(<<"zpool", "import">>, TRUE)
               /\ Continue(IF zpool_ready_for_import(TRUE, stdout, req.name)
                           THEN change_state(loc.rc, loc)
                           ELSE Goto("zpool_ready_for_import",
                                     [loc EXCEPT !.elapsed = @ + check_interval]))
       ELSE /\ Continue(change_state(loc.rc, loc))
            /\ UNCHANGED <<sys, cmds>>
    /\ UNCHANGED <<req, pass, first>>

-----------------------------------------------------------------------------
(* Invocations *)

NoFirst == [req |-> DefaultRequest, result |-> NoResult, cmds |-> <<>>]

Init ==
    /\ req \in Requests
    /\ sys \in StartStates(req)
    /\ pc = "start"
    /\ loc = InitLoc
    /\ result = NoResult
    /\ cmds = <<>>
    /\ pass = 1
    /\ first = [NoFirst EXCEPT !.req = req] @@ [sys0 |-> sys, sys1 |-> sys]

\* the module is invoked again with the same parameters, not in check mode:
\* a real run follows a dry run or a real run
Reinvoke ==
    /\ pc = "done"
    /\ pass = 1
    /\ pass' = 2
    /\ first' = [first EXCEPT !.result = result, !.cmds = cmds, !.sys1 = sys]
    /\ req' = [req EXCEPT !.check_mode = FALSE]
    /\ pc' = "start"
    /\ loc' = InitLoc
    /\ result' = NoResult
    /\ cmds' = <<>>
    /\ UNCHANGED sys

Next ==
    \/ RunModule
    \/ CheckZpoolExists
    \/ CheckVolumeExists
    \/ CreateZpool
    \/ CreateVolume
    \/ SetZpoolOptions
    \/ HotspareExists
    \/ AddHotspare
    \/ DestroyZpool
    \/ DestroyVolume
    \/ CacheDeviceExists
    \/ AddCacheToZpool
    \/ CheckForZpool
    \/ KuitCreateZpool
    \/ KuitSetZpoolOption
    \/ KuitDestroyZpool
    \/ ImportZpool
    \/ ExportZpool
    \/ WaitReadyForImport
    \/ Reinvoke

Spec == Init /\ [][Next]_vars

-----------------------------------------------------------------------------
(* Vocabulary of the properties *)

Done == pc = "done"

\* the subsystem state the running pass started in
StartSys == IF pass = 1 THEN first.sys0 ELSE first.sys1

IsMutating(c) == Mutating(c.argv)
MutatingCmds(cs) == SelectSeq(cs, IsMutating)
Argvs(cs) == [i \in 1..Len(cs) |-> cs[i].argv]

\* every mutating command of the list succeeded
AllSucceeded(cs) == \A i \in 1..Len(cs) : Mutating(cs[i].argv) => cs[i].ok

\* positions in the pass's commands of the commands `zpool <verb> ...` / `zfs <verb> ...`
Issued(tool, verb) ==
    {i \in 1..Len(cmds) : cmds[i].argv[1] = tool /\ cmds[i].argv[2] = verb}

ZfsManager == req.variant \in {"plugin", "library"}

\* the subsystem answers the commands of the pass
Reachable == sys.reach = "ok"

\* a real pass (not check mode) against a reachable subsystem is running or
\* has ended
RealPass == ~req.check_mode /\ pc # "start" /\ Reachable

\* the resource the request names exists when the pass starts
ResourceExists ==
    CASE req.type = "zpool" -> StartSys.pool.st = "online"
      [] req.type = "volume" -> StartSys.vol.exists
      [] req.type = "cache" ->
            StartSys.vol.exists \/ DevicePath(req.name) \in StartSys.pool.caches

-----------------------------------------------------------------------------
(* Properties *)

\* C1: zfs_manager run twice in succession with the same desired state, every
\* command of both runs succeeding: the second run does not report changed=true
\* (changed=true is reported by the first run at most), for every resource kind
\* and every starting state.
C1_Idempotence ==
    (/\ ZfsManager
     /\ pass = 2 /\ Done
     /\ ~first.req.check_mode
     /\ AllSucceeded(first.cmds) /\ AllSucceeded(cmds))
        => ~result.changed

\* the first run changed the subsystem and reported it, the second has ended
C1_Witness ==
    /\ ZfsManager
    /\ pass = 2 /\ Done
    /\ ~first.req.check_mode
    /\ AllSucceeded(first.cmds) /\ AllSucceeded(cmds)
    /\ first.result.changed /\ first.sys1 # first.sys0
    /\ result.status = "ok" /\ ~result.changed
    /\ req.type = "cache"

\* the minimum number of member disks of the redundancy schemes
MinDisks == [stripe |-> 1, mirror |-> 2, raidz |-> 3, raidz2 |-> 4, raidz3 |-> 5]

PoolPresentPass ==
    /\ req.variant = "plugin" /\ req.type = "zpool" /\ req.state = "present"
    /\ RealPass

\* C2: a pool request with intent present and fewer member disks than the minimum
\* of its scheme is rejected with an error and issues no mutating command,
\* whether the pool exists or not; with at least the minimum it is not rejected
\* by validation.
C2_TooFewDisksRejected ==
    (PoolPresentPass /\ req.raidz \in DOMAIN MinDisks) =>
        IF Len(req.disks) < MinDisks[req.raidz]
        THEN /\ MutatingCmds(cmds) = <<>>
             /\ Done => result.status = "failed"
        ELSE result.msg \notin {"too_few_disks", "invalid_raid_type"}

\* C3: a pool request with intent present whose scheme is not one of stripe,
\* mirror, raidz, raidz2, raidz3 is rejected with an error, and no create command
\* with that scheme is issued.
C3_UnknownSchemeRejected ==
    (PoolPresentPass /\ req.raidz \notin DOMAIN MinDisks) =>
        /\ Issued("zpool", "create") = {}
        /\ Done => result.status = "failed"

\* C4: a pool request with intent present, at least one hot spare and no member
\* disk, for a pool that does not exist, is rejected with the error of hot spares
\* without disks, and no mutating command is issued.
C4_SparesWithoutDisksRejected ==
    (/\ PoolPresentPass
     /\ req.hot_spare # <<>> /\ req.disks = <<>>
     /\ StartSys.pool.st # "online")
        => /\ MutatingCmds(cmds) = <<>>
           /\ Done => result = fail_json("hot spares but no disks")

C4_Witness ==
    /\ PoolPresentPass /\ Done
    /\ req.hot_spare # <<>> /\ req.disks = <<>>
    /\ StartSys.pool.st # "online"
    /\ result.status = "failed"
    /\ Len(cmds) = 1

\* C5: for every resource kind, a request with intent absent for a resource that
\* does not exist ends with changed=false, without error, and with no mutating
\* command issued.
C5_AbsentOnAbsent ==
    (RealPass /\ Done /\ req.state = "absent" /\ ~ResourceExists)
        => /\ result.status = "ok"
           /\ ~result.changed
           /\ MutatingCmds(cmds) = <<>>

\* C6: a pass in check mode and a real pass from the same starting state, every
\* command of the real pass succeeding, report the same changed verdict.
C6_DryRunFidelity ==
    (/\ pass = 2 /\ Done
     /\ first.req.check_mode /\ first.sys1 = first.sys0
     /\ AllSucceeded(cmds))
        => result.changed = first.result.changed

\* C7: in a pass in check mode no mutating command is issued, for every variant,
\* resource kind and intent, and the subsystem state stays the state the pass
\* started in.
C7_DryRunMutatesNothing ==
    req.check_mode => MutatingCmds(cmds) = <<>> /\ sys = StartSys

\* a pass in check mode inspected the subsystem and reported a change to make
C7_Witness ==
    /\ req.check_mode /\ Done
    /\ cmds # <<>>
    /\ result = exit_json(TRUE)

\* C8: a mutating command that fails is the last command of its pass (no command
\* follows it: no retry, no rollback), and the pass ends in failure.
C8_HaltOnFailure ==
    \A i \in 1..Len(cmds) :
        (Mutating(cmds[i].argv) /\ ~cmds[i].ok) =>
            /\ i = Len(cmds)
            /\ Done => result.status = "failed"

\* the option value a request asks for: on for a flag given true, off for one
\* given false or not given
OnOff(flag) == IF flag = "True" THEN "on" ELSE "off"

\* C9: zfs_manager, pool request with intent present, a valid scheme and disk
\* count, no hot spares, the pool absent, every command succeeding: the mutating
\* commands are exactly create <name> [<scheme>] <disks>, set compression=<v>
\* <name>, set canmount=<v> <name> in this order, <v> being on exactly for a flag
\* the request sets true; the pass reports changed=true.
C9_CreateSequence ==
    (/\ ZfsManager /\ req.type = "zpool" /\ req.state = "present"
     /\ RealPass /\ Done
     /\ req.raidz \in DOMAIN MinDisks /\ Len(req.disks) >= MinDisks[req.raidz]
     /\ req.hot_spare = <<>>
     /\ StartSys.pool.st = "absent"
     /\ AllSucceeded(cmds))
        => /\ Argvs(MutatingCmds(cmds)) =
                << <<"zpool", "create", req.name>>
                       \o (IF req.raidz = "stripe" THEN <<>> ELSE <<req.raidz>>)
                       \o req.disks,
                   <<"zfs", "set", "compression=" \o OnOff(req.compression), req.name>>,
                   <<"zfs", "set", "canmount=" \o OnOff(req.canmount), req.name>> >>
           /\ result = exit_json(TRUE)

\* C10: a cache request with size and target pool, every command succeeding:
\* create-volume is issued exactly when the backing volume does not exist;
\* add-cache of /dev/zvol/<name> exactly when the target pool does not have that
\* device as a cache device; create-volume precedes add-cache; changed is true
\* exactly when one of the two was issued.
C10_CacheSteps ==
    (/\ req.type = "cache" /\ req.size # "" /\ req.zpool # ""
     /\ RealPass /\ Done
     /\ AllSucceeded(cmds))
        => LET cv == Issued("zfs", "create")
               ac == {i \in 1..Len(cmds) :
                        cmds[i].argv = <<"zpool", "add", req.zpool, "cache",
                                         "/dev/zvol/" \o req.name>>}
           IN  /\ cv # {} <=> ~StartSys.vol.exists
               /\ ac # {} <=> ("/dev/zvol/" \o req.name) \notin StartSys.pool.caches
               /\ \A i \in cv, j \in ac : i < j
               /\ result.changed <=> (cv \cup ac # {})


-----------------------------------------------------------------------------
(* Hot spares, preconditions, results *)

\* C11: in a pool-present pass an add-spare command is issued for a declared
\* hot spare exactly when the device is not attached to the pool as a hot spare
\* when it is inspected; after a pass without error every declared hot spare is
\* attached as a spare
C11_SpareAddedIffNotAttached ==
    (PoolPresentPass /\ Done /\ result.status = "ok")
    => \A i \in 1..Len(req.hot_spare) :
          LET device == req.hot_spare[i]
              wasSpare == StartSys.pool.st = "online" /\ device \in StartSys.pool.spares
          IN  /\ add_hotspare(req.name, device) \in Range(Argvs(cmds)) <=> ~wasSpare
              /\ device \in sys.pool.spares

\* the state a command depends on was inspected earlier in the pass (log) and
\* the effect of the command is not yet present in subsystem state s
InspectedAndNeeded(argv, log, s) ==
    CASE argv[1] = "zpool" /\ argv[2] = "create" ->
            /\ check_zpool_exists(argv[3]) \in Range(Argvs(log))
            /\ s.pool.st # "online"
      [] argv[1] = "zfs" /\ argv[2] = "create" ->
            /\ check_volume_exists(argv[Len(argv)]) \in Range(Argvs(log))
            /\ ~s.vol.exists
      [] argv[1] = "zpool" /\ argv[2] = "destroy" ->
            /\ check_zpool_exists(argv[3]) \in Range(Argvs(log))
            /\ s.pool.st = "online"
      [] argv[1] = "zfs" /\ argv[2] = "destroy" ->
            /\ check_volume_exists(argv[3]) \in Range(Argvs(log))
            /\ s.vol.exists
      [] argv[2] = "add" /\ argv[4] = "spare" ->
            /\ zpool_status(argv[3]) \in Range(Argvs(log))
            /\ argv[5] \notin s.pool.spares
      [] argv[2] = "add" /\ argv[4] = "cache" ->
            /\ zpool_status(argv[3]) \in Range(Argvs(log))
            /\ argv[5] \notin s.pool.caches
      [] OTHER -> TRUE

\* C12: every create, destroy, add-spare and add-cache command is preceded in
\* the same pass by an inspection of the state it depends on, and is never
\* issued when its effect is already present
C12_MutationsAreGated ==
    [][(pass' = pass /\ Len(cmds') = Len(cmds) + 1)
       => InspectedAndNeeded(cmds'[Len(cmds')].argv, cmds, sys)]_vars

\* C13: every invocation, whatever the kind, the state value and the actual
\* state, ends with one result: exit_json carrying changed, or fail_json; none
\* ends without a result
C13_OneResult ==
    (Done /\ Reachable) => result.status \in {"ok", "failed", "skipped"}

\* C14: when the subsystem cannot be reached (commands not installed, or the
\* inspection fails with permission denied) the existence check is not
\* answered as "absent": no create command is issued and the pass ends in a
\* fatal error
C14_UnreachableIsFatal ==
    (~Reachable /\ cmds # <<>>)
    => /\ Issued("zpool", "create") = {}
       /\ Issued("zfs", "create") = {}
       /\ Done => result.status \in {"failed", "crashed"}

\* C15: within a pass a create command precedes every set-option command,
\* every set-option command precedes every add-spare or add-cache command, and
\* a destroy command is the only mutating command of its pass
C15_CommandOrder ==
    LET create == Issued("zpool", "create") \cup Issued("zfs", "create")
        set == Issued("zfs", "set")
        add == Issued("zpool", "add")
        destroy == Issued("zpool", "destroy") \cup Issued("zfs", "destroy")
    IN  /\ \A i \in create, j \in set : i < j
        /\ \A i \in set, j \in add : i < j
        /\ destroy # {} => Len(MutatingCmds(cmds)) = 1

\* a pass that created the pool, set its options and attached a spare
C15_Witness ==
    /\ Done /\ result = exit_json(TRUE)
    /\ Issued("zpool", "create") # {} /\ Issued("zfs", "set") # {}
    /\ Issued("zpool", "add") # {}
    /\ AllSucceeded(cmds)

\* C16: for a pool and for a volume alike, state absent for an existing
\* resource issues one destroy command for that name and reports changed=true;
\* for a non-existing resource it issues no command that mutates and reports
\* changed=false without error; a volume needs no more parameters than a pool
C16_AbsentPoolAndVolume ==
    (/\ ZfsManager /\ req.type \in {"zpool", "volume"} /\ req.state = "absent"
     /\ RealPass /\ Done /\ AllSucceeded(cmds))
    => IF ResourceExists
       THEN /\ Argvs(MutatingCmds(cmds))
                 = << <<IF req.type = "zpool" THEN "zpool" ELSE "zfs",
                        "destroy", req.name>> >>
            /\ result = exit_json(TRUE)
       ELSE /\ MutatingCmds(cmds) = <<>>
            /\ result = exit_json(FALSE)

\* C17: volume with state present: without a size the request is rejected
\* before any command; for a volume that does not exist `zfs create -V <size>
\* <name>` is issued, then the set-option commands, and changed=true is
\* reported; for a volume that exists only the set-option commands are issued
\* and changed=false is reported
C17_VolumePresent ==
    (/\ ZfsManager /\ req.type = "volume" /\ req.state = "present"
     /\ RealPass /\ Done)
    => IF req.size = ""
       THEN cmds = <<>> /\ result.status = "failed"
       ELSE AllSucceeded(cmds)
            => LET create == << <<"zfs", "create", "-V", req.size, req.name>> >>
                   set == [k \in 1..Len(options(req)) |->
                              <<"zfs", "set", options(req)[k], req.name>>]
               IN  IF StartSys.vol.exists
                   THEN /\ Argvs(MutatingCmds(cmds)) = set
                        /\ result = exit_json(FALSE)
                   ELSE /\ Argvs(MutatingCmds(cmds)) = create \o set
                        /\ result = exit_json(TRUE)

\* a volume was created and its options set
C17_Witness ==
    /\ ZfsManager /\ req.type = "volume" /\ req.state = "present"
    /\ RealPass /\ Done /\ AllSucceeded(cmds)
    /\ ~StartSys.vol.exists /\ sys.vol.exists
    /\ Len(MutatingCmds(cmds)) = 3
    /\ result = exit_json(TRUE)

\* C18: a pool-present pass that ends without error reports changed exactly
\* when the pool was created in the pass or an add-spare command was issued;
\* within a pass the changed flag never goes from true back to false, and the
\* set-option step does not raise it
C18_ChangedIsCreatedOrSpareAdded ==
    /\ [](( /\ req.variant = "plugin" /\ req.type = "zpool" /\ req.state = "present"
            /\ ~req.check_mode /\ Done /\ result.status = "ok")
          => (result.changed
                <=> \/ Issued("zpool", "create") # {}
                    \/ \E i \in Issued("zpool", "add") : cmds[i].argv[4] = "spare"))
    /\ [][(req.variant = "plugin" /\ pass' = pass)
          => /\ loc.changed => loc'.changed
             /\ pc = "set_zpool_options" => loc'.changed = loc.changed]_vars

\* a pass that found the pool, set its options and attached a spare
C18_Witness ==
    /\ req.variant = "plugin" /\ req.type = "zpool" /\ req.state = "present"
    /\ ~req.check_mode /\ Done /\ result = exit_json(TRUE)
    /\ Issued("zpool", "create") = {} /\ Issued("zfs", "set") # {}
    /\ Issued("zpool", "add") # {}

\* a request that validation has to reject: a scheme outside the known ones,
\* fewer disks than the scheme needs, or a missing size or target pool
FailsValidation ==
    CASE req.type = "zpool" ->
            /\ req.state = "present"
            /\ \/ req.raidz \notin DOMAIN MinDisks
               \/ Len(req.disks) < MinDisks[req.raidz]
      [] req.type = "volume" -> req.size = ""
      [] req.type = "cache" -> req.size = "" \/ req.zpool = ""

\* C19: validation of the request is complete before the first inspection
\* that gates a mutation and before the first command: a request that fails
\* validation causes no inspection and no mutating command
C19_ValidationFirst ==
    (req.variant = "plugin" /\ RealPass /\ FailsValidation) => cmds = <<>>

\* the first pass was a real one that halted on a failed mutating command and
\* the same request has been run again to its end
RerunAfterHalt ==
    /\ req.variant = "plugin" /\ req.type \in {"zpool", "cache"}
    /\ req.state = "present"
    /\ pass = 2 /\ Done /\ Reachable
    /\ ~first.req.check_mode
    /\ first.result.status = "failed" /\ ~AllSucceeded(first.cmds)

\* C20: the pass that follows a pass halted on a failed command issues no
\* create for a resource that exists and no add for a device that is attached
\* and, when all its commands succeed, ends with the resource present, its
\* options set and every declared spare or cache device attached
C20_RerunCompletes ==
    RerunAfterHalt
    => /\ StartSys.pool.st = "online" => Issued("zpool", "create") = {}
       /\ StartSys.vol.exists => Issued("zfs", "create") = {}
       /\ \A i \in Issued("zpool", "add") :
             cmds[i].argv[5] \notin
                IF cmds[i].argv[4] = "spare" THEN StartSys.pool.spares
                                             ELSE StartSys.pool.caches
       /\ AllSucceeded(cmds)
          => IF req.type = "zpool"
             THEN /\ sys.pool.st = "online"
                  /\ sys.pool.compression = OnOff(req.compression)
                  /\ sys.pool.canmount = OnOff(req.canmount)
                  /\ Range(req.hot_spare) \subseteq sys.pool.spares
             ELSE /\ sys.vol.exists
                  /\ sys.pool.st = "online"
                  /\ DevicePath(req.name) \in sys.pool.caches

-----------------------------------------------------------------------------
(* Policies of the variants, export, frame *)

ExportInit == Init /\ req.variant = "kuit" /\ req.state = "export"

ExportNext ==
    \/ RunModule
    \/ CheckForZpool
    \/ ExportZpool
    \/ WaitReadyForImport
    \/ Reinvoke

ExportSpec == ExportInit /\ [][ExportNext]_vars /\ WF_vars(ExportNext)

InExportWait == pc = "zpool_ready_for_import"

\* C22: the wait loop after export_zpool of kuit_zfs_zpool ends, either with
\* the pool named in the import listing (no poll follows) or with timeout
\* elapsed, polls being check_interval apart; it is entered only for a pool
\* that existed, and after it changed=true is reported exactly when the export
\* command succeeded, failure otherwise
C22_ExportWait ==
    /\ [](InExportWait
            => /\ req.variant = "kuit" /\ req.state = "export"
               /\ StartSys.pool.st = "online" /\ loc.pool_exists
               /\ Issued("zpool", "export") # {})
    /\ [][InExportWait
            => IF pc' = "done"
               THEN /\ \/ loc.elapsed >= timeout /\ cmds' = cmds
                       \/ /\ loc.elapsed < timeout
                          /\ cmds' = Append(cmds, [argv |-> <<"zpool", "import">>, ok |-> TRUE])
                          /\ sys.pool.st = "exported"
                    /\ result' = IF loc.rc THEN exit_json(TRUE)
                                 ELSE fail_json("Unable to create zpool")
                    /\ loc.rc = cmds[CHOOSE i \in Issued("zpool", "export") : TRUE].ok
               ELSE /\ InExportWait' /\ loc.elapsed < timeout
                    /\ loc'.elapsed = loc.elapsed + check_interval
                    /\ Len(cmds') = Len(cmds) + 1]_vars
    /\ (InExportWait ~> Done)

\* the loop ran to the timeout after an export that succeeded
C22_Witness ==
    /\ req.variant = "kuit" /\ req.state = "export" /\ Done
    /\ loc.elapsed = timeout
    /\ Len(cmds) = 2 + timeout \div check_interval
    /\ sys.pool.st = "exported"
    /\ result = exit_json(TRUE)

\* C23: a pass with state absent issues no create and no add command,
\* whatever the kind of the resource and the actual state: the only mutating
\* command it can issue is destroy
C23_AbsentOnlyDestroys ==
    (req.state = "absent" /\ RealPass)
    => \A i \in 1..Len(cmds) : Mutating(cmds[i].argv) => cmds[i].argv[2] = "destroy"

\* resource record a equals b apart from the compression and canmount values
SameButOptions(a, b) ==
    [a EXCEPT !.compression = b.compression, !.canmount = b.canmount] = b

\* a pass has ended without error and reported changed=false
EndedUnchanged == Done /\ result.status = "ok" /\ ~result.changed

\* C24 as stated: whenever a pass ends with changed=false and no error, the
\* state of the subsystem after the pass equals the state before the pass
C24_UnchangedLeavesState == EndedUnchanged => sys = StartSys

\* C24, amended: whenever a pass ends with changed=false and no error, the
\* pools and volumes and the attached spare and cache devices are those from
\* before the pass; option values differ only where a present pass of
\* zfs_manager re-set the options of the existing resource it names
C24_UnchangedLeavesResources ==
    EndedUnchanged
    => /\ sys.reach = StartSys.reach
       /\ SameButOptions(sys.pool, StartSys.pool)
       /\ SameButOptions(sys.vol, StartSys.vol)
       /\ sys # StartSys
          => /\ ZfsManager /\ req.state = "present" /\ ResourceExists
             /\ Issued("zfs", "set") # {}
             /\ \A i \in 1..Len(cmds) :
                   Mutating(cmds[i].argv) => i \in Issued("zfs", "set")

\* a pass re-set an option of an existing pool, kept its spares and reported
\* changed=false
C24_Witness ==
    /\ EndedUnchanged /\ req.type = "zpool"
    /\ sys.pool.compression # StartSys.pool.compression
    /\ sys.pool.spares = StartSys.pool.spares /\ sys.pool.spares # {}
    /\ req.hot_spare # <<>>

====
